---- MODULE Spec2Model ----
(***************************************************************************)
(* Model of the invoice pipeline of gcp-invoice-intel: the file registry   *)
(* (BigQueryClient.get_or_create_file_id) and the orchestrator             *)
(* (InvoiceProcessor.process_invoice) with its collaborators.              *)
(*                                                                         *)
(* Text is modelled as a sequence of tokens; "/" is the path separator, so *)
(* f-strings are concatenations and path functions work on the tokens.     *)
(* Python dictionaries are functions from keys to values.                  *)
(***************************************************************************)
EXTENDS Integers, Sequences, FiniteSets, TLC

VARIABLES
    registry,   \* rows of the file_inventory table, in insertion order
    invoices,   \* the processed_invoices table: the invoice_id column of its
                \* rows, in insertion order (nothing reads the table back)
    now,        \* the clock: the timestamp the next registry write reads
    cfg,        \* the constructor arguments of InvoiceProcessor
    pc,         \* per invocation: the statement process_invoice is at
    call,       \* per invocation: the local variables of process_invoice
    ret,        \* per invocation: the dictionary process_invoice returned
    trace,      \* per invocation: the collaborator calls made, in order
    ncalls,     \* number of invocations started so far
    hist,       \* history: per identifier, the registry calls made for it
    field       \* the last call of a field conversion or record builder:
                \* its arguments and what it returned (FieldSpec)

\* the state of the pipeline
pvars == <<registry, invoices, now, cfg, pc, call, ret, trace, ncalls, hist>>

vars == <<registry, invoices, now, cfg, pc, call, ret, trace, ncalls, hist, field>>

----------------------------------------------------------------------------
(* Bounds of the model *)

MaxCalls == 2       \* invocations of process_invoice in one behaviour

\* the processes that may overlap (independent instances, spec section 5):
\* one runs process_invoice, the other is a second client of the registry
\* that calls get_or_create_file_id
Pipelines == {"p1"}
Clients == {"p2"}
Procs == Pipelines \cup Clients

----------------------------------------------------------------------------
(* Text and paths *)

Sep == "/"
None == <<"None">>
Falsy(t) == t = None \/ t = <<>>

\* src.config.PROJECT_ROOT and the working directory of the process
PROJECT_ROOT == <<Sep, "srv">>
Cwd == <<Sep, "srv">>

GCS_PRODUCTION_BUCKET_NAME == <<"prod-bucket">>
GCS_ADHOC_BUCKET_NAME == <<"adhoc-bucket">>

\* the file paths callers pass to process_invoice
Paths ==
    { <<"acme", Sep, ".", Sep, "a.pdf">>,
      <<Sep, "srv", Sep, "beta", Sep, "a.pdf">> }

Projects == { None, <<"acme">> }

IsAbs(path) == Len(path) > 0 /\ path[1] = Sep

\* path.split(sep) without the empty components, which normpath skips
Comps(path) == SelectSeq(path, LAMBDA t : t # Sep)

\* posixpath.normpath: one leading slash, or two when the path starts with
\* exactly two
InitialSlashes(path) ==
    IF ~IsAbs(path) THEN 0
    ELSE IF Len(path) >= 2 /\ path[2] = Sep /\ ~(Len(path) >= 3 /\ path[3] = Sep)
         THEN 2 ELSE 1

RECURSIVE NormComps(_, _, _)
NormComps(comps, acc, initial) ==
    IF comps = <<>> THEN acc
    ELSE LET c == Head(comps)
             rest == Tail(comps)
         IN IF c = "." THEN NormComps(rest, acc, initial)
            ELSE IF \/ c # ".."
                    \/ (initial = 0 /\ acc = <<>>)
                    \/ (acc # <<>> /\ acc[Len(acc)] = "..")
                 THEN NormComps(rest, Append(acc, c), initial)
                 ELSE IF acc # <<>>
                      THEN NormComps(rest, SubSeq(acc, 1, Len(acc) - 1), initial)
                      ELSE NormComps(rest, acc, initial)

RECURSIVE JoinComps(_)
JoinComps(comps) ==
    IF comps = <<>> THEN <<>>
    ELSE IF Len(comps) = 1 THEN <<comps[1]>>
    ELSE <<comps[1], Sep>> \o JoinComps(Tail(comps))

NormPath(path) ==
    IF path = <<>> THEN <<".">>
    ELSE LET initial == InitialSlashes(path)
             joined == JoinComps(NormComps(Comps(path), <<>>, initial))
             lead == [i \in 1..initial |-> Sep]
             out == lead \o joined
         IN IF out = <<>> THEN <<".">> ELSE out

\* os.path.join(a, b) for a relative b
JoinPath(a, b) ==
    IF a # <<>> /\ a[Len(a)] = Sep THEN a \o b ELSE a \o <<Sep>> \o b

\* os.path.abspath
AbsPath(path) ==
    IF IsAbs(path) THEN NormPath(path) ELSE NormPath(JoinPath(Cwd, path))

\* os.path.basename: what follows the last separator
RECURSIVE Basename(_)
Basename(path) ==
    IF path = <<>> \/ path[Len(path)] = Sep THEN <<>>
    ELSE Append(Basename(SubSeq(path, 1, Len(path) - 1)), path[Len(path)])

\* pathlib: Path(path).parent.name
ParentName(path) ==
    LET parts == SelectSeq(Comps(path), LAMBDA t : t # ".")
    IN IF Len(parts) >= 2 THEN <<parts[Len(parts) - 1]>> ELSE <<>>

\* os.path.splitext(path)[1].lower() for the file names of Paths
FileType(path) ==
    LET name == Basename(path)
    IN IF name = <<"a.pdf">> THEN <<".pdf">> ELSE <<>>

\* hashlib.md5(...).hexdigest(): a digest that is a function of the text
\* alone; distinct texts of the model get distinct digests
Md5Hex(text) == ToString(text)

\* str(uuid.UUID(hex)): the digest in the 8-4-4-4-12 layout
UuidStr(hex) == <<hex>>

----------------------------------------------------------------------------
(* Dictionaries *)

NoDict == [unset |-> TRUE]

\* no field conversion has been called
NoField == [op |-> "none"]

\* dict.update(other)
DictUpdate(d, other) ==
    [k \in DOMAIN d \cup DOMAIN other |-> IF k \in DOMAIN other THEN other[k] ELSE d[k]]

----------------------------------------------------------------------------
(* The file registry: BigQueryClient *)

\* variant: the path is hashed as given, without abspath and normpath
GenerateFileIdUnnormalized(file_path) == UuidStr(Md5Hex(file_path))

\* BigQueryClient._generate_file_id
GenerateFileId(file_path) ==
    LET abs_path == AbsPath(file_path)
        normalized_path == NormPath(abs_path)
    IN UuidStr(Md5Hex(normalized_path))

\* InvoiceProcessor._generate_file_id
MainGenerateFileId(file_path) == UuidStr(Md5Hex(AbsPath(file_path)))

\* the storage path and URI both registry methods compute
InventoryUri(file_id, file_path, is_production, project_name) ==
    LET original_filename == Basename(file_path)
        storage_path ==
            IF ~is_production
            THEN <<"invoices", Sep>> \o file_id \o <<"_">> \o original_filename
            ELSE <<"clients", Sep>> \o project_name \o <<Sep>> \o original_filename
        bucket_name ==
            IF is_production THEN GCS_PRODUCTION_BUCKET_NAME ELSE GCS_ADHOC_BUCKET_NAME
    IN <<"gs://">> \o bucket_name \o <<Sep>> \o storage_path

\* the row get_or_create_file_id inserts for a file it has not seen
NewInventoryRow(file_id, file_path, is_production, project_name, file_size, t) ==
    LET project == IF is_production /\ Falsy(project_name)
                   THEN ParentName(file_path) ELSE project_name
    IN [ file_id |-> file_id,
         original_filename |-> Basename(file_path),
         project_name |-> project,
         file_size |-> file_size,
         file_type |-> FileType(file_path),
         upload_timestamp |-> t,
         processing_count |-> 1,
         last_processing_timestamp |-> t,
         is_production |-> is_production,
         gcs_uri |-> InventoryUri(file_id, file_path, is_production, project) ]

\* the SELECT of get_or_create_file_id: the rows with this identifier
LookupRows(table, file_id) == SelectSeq(table, LAMBDA r : r.file_id = file_id)

\* variant: the insert is guarded, a row is added only when none has the identifier
InsertRowIfAbsent(table, row) ==
    IF LookupRows(table, row.file_id) # <<>> THEN table ELSE Append(table, row)

\* client.insert_rows_json(table, [row]) when the warehouse accepts the row
InsertRow(table, row) == Append(table, row)

\* _update_file_processing reads its local project_name before assigning it
\* when is_production is true: UnboundLocalError, before any query is sent
UpdateRaisesUnbound(file_path, is_production) == file_path # <<>> /\ is_production

\* variant: the UPDATE also overwrites the first-seen timestamp
UpdateRowsResetsFirstSeen(table, file_id, file_path, is_production, file_size, t) ==
    [ i \in 1..Len(table) |->
        IF table[i].file_id # file_id THEN table[i]
        ELSE [ table[i] EXCEPT
                 !.processing_count = @ + 1,
                 !.last_processing_timestamp = t,
                 !.upload_timestamp = t ] ]

\* the UPDATE of _update_file_processing, applied to every row with the identifier
UpdateRows(table, file_id, file_path, is_production, file_size, t) ==
    [ i \in 1..Len(table) |->
        IF table[i].file_id # file_id THEN table[i]
        ELSE IF file_path # <<>>
             THEN [ table[i] EXCEPT
                      !.processing_count = @ + 1,
                      !.last_processing_timestamp = t,
                      !.file_size = file_size,
                      !.file_type = FileType(file_path),
                      !.is_production = is_production,
                      !.gcs_uri = InventoryUri(file_id, file_path, is_production, None) ]
             ELSE [ table[i] EXCEPT
                      !.processing_count = @ + 1,
                      !.last_processing_timestamp = t ] ]

\* get_or_create_file_id, inner except: a failed update is logged as a warning
\* and the identifier is returned
CatchUpdateError(file_id) == [raised |-> FALSE, value |-> file_id]

\* variant: the outer except clause raises the error on to the caller
ReraiseInventoryError(file_id) == [raised |-> TRUE, value |-> <<>>]

\* get_or_create_file_id, outer except: a failed lookup, stat or insert is
\* logged as an error and the identifier is returned
CatchInventoryError(file_id) == [raised |-> FALSE, value |-> file_id]

----------------------------------------------------------------------------
(* LLM refinement: GeminiProcessor *)

\* the response bodies the model returns
LlmBodies ==
    { <<"Sorry,", "I cannot read this invoice">>,
      <<"{", "invoice_number", ":", "INV-7", "}">>,
      <<"{", "invoice_number", ":", "INV-7", ",", "invoice_date", ":", "2024-01-15", ",",
        "due_date", ":", "2024-02-14", ",", "total_amount", ":", "1200.0", ",",
        "vendor_name", ":", "Acme", ",", "line_items", ":", "[]", ",",
        "payment_terms", ":", "Net 30", ",", "notes", ":", "none", "}">> }

\* the fields the refinement prompt asks the model for
ExpectedKeys ==
    { "invoice_number", "invoice_date", "due_date", "total_amount", "vendor_name",
      "line_items", "payment_terms", "notes" }

\* json.loads on a tokenised body: an object of string members
JsonMembers(body) == SubSeq(body, 2, Len(body) - 1)

IsJson(body) ==
    /\ Len(body) >= 2
    /\ body[1] = "{"
    /\ body[Len(body)] = "}"
    /\ LET m == JsonMembers(body)
       IN \/ m = <<>>
          \/ /\ Len(m) % 4 = 3
             /\ \A i \in 1..Len(m) :
                  /\ (i % 4 = 2 => m[i] = ":")
                  /\ (i % 4 = 0 => m[i] = ",")
                  /\ (i % 4 \in {1, 3} => m[i] \notin {":", ",", "{", "}"})

JsonLoads(body) ==
    LET m == JsonMembers(body)
        keyAt == { i \in 1..Len(m) : i % 4 = 1 }
        keys == { m[i] : i \in keyAt }
    IN [ k \in keys |->
            LET i == CHOOSE j \in keyAt : m[j] = k /\ \A h \in keyAt : m[h] = k => h <= j
            IN <<m[i + 2]>> ]

\* GeminiProcessor._parse_response
ParseResponse(response_text) ==
    IF IsJson(response_text) THEN JsonLoads(response_text)
    ELSE [ error |-> <<"Failed to parse Gemini response">>,
           raw_response |-> response_text ]

\* GeminiProcessor.refine_invoice_data: the model call raised, or answered
RefineInvoiceData(document_ai_output, raised, response_text) ==
    IF raised THEN document_ai_output ELSE ParseResponse(response_text)

----------------------------------------------------------------------------
(* Document extraction: DocumentAIProcessor on BaseProcessor *)

\* what _process_document returns for the documents of the model; the
\* invoice_id is the uuid4 drawn by _extract_entities
Documents ==
    { [ invoice_id |-> <<"uuid4">>,
        invoice_number |-> <<"INV-7">>,
        invoice_date |-> <<"2024-01-15">>,
        due_date |-> <<"1900-01-01">>,
        total_amount |-> 1200,
        vendor_name |-> <<"Acme">>,
        vendor_address |-> <<"1 Main St">>,
        line_items |-> <<>>,
        payment_terms |-> <<"Net 30">>,
        notes |-> <<>>,
        raw_data |-> <<"INVOICE INV-7">>,
        processor_type |-> <<"DocumentAIProcessor">> ] }

\* BaseProcessor.process: the extracted data, updated with the metadata
Process(document_data, metadata) == DictUpdate(document_data, metadata)

----------------------------------------------------------------------------
(* The orchestrator: InvoiceProcessor.process_invoice *)

\* os.stat(file_path).st_size of the files of Paths
FileSize(file_path) ==
    IF AbsPath(file_path) = <<Sep, "srv", Sep, "beta", Sep, "a.pdf">> THEN 2048 ELSE 1024

\* the messages of the exceptions the collaborators raise
InventoryError == <<"inventory unavailable">>
UploadError == <<"upload failed">>
ExtractError == <<"document extraction failed">>
StoreError == <<"insert failed">>

RegistryPcs == {"lookup", "update", "insert"}

\* process_invoice makes a relative path absolute under PROJECT_ROOT
ResolvePath(file_path) ==
    IF IsAbs(file_path) THEN file_path ELSE NormPath(JoinPath(PROJECT_ROOT, file_path))

FileIds == { GenerateFileId(q) : q \in Paths \cup { ResolvePath(r) : r \in Paths } }

NoCall ==
    [ file_path |-> <<>>, is_adhoc |-> FALSE, project_name |-> None,
      gid |-> <<>>, file_id |-> <<>>, storage_path |-> <<>>, gcs_uri |-> <<>>,
      pre |-> NoDict, refined |-> "none", result |-> NoDict, written |-> FALSE,
      event |-> NoDict ]

\* number of times a collaborator operation was invoked in an invocation
Count(tr, op) == Cardinality({ i \in 1..Len(tr) : tr[i] = op })

\* variant: the except clause reports success and drops the message
FailureSwallowed(e, file_path) == [success |-> TRUE, error |-> <<>>, file_path |-> file_path]

\* variant: the except clause returns the failure without its message
FailureWithoutMessage(e, file_path) == [success |-> FALSE, file_path |-> file_path]

\* the except clause of process_invoice: the failure result
Failure(e, file_path) == [success |-> FALSE, error |-> e, file_path |-> file_path]

\* the result process_invoice returns after the store
Success(c) ==
    [ success |-> TRUE, file_id |-> c.file_id,
      storage_path |-> c.storage_path, data |-> c.result ]

\* Settings.MAX_RETRIES: set in the configuration, read by no code
MAX_RETRIES == 3

\* variant: a failed upload does not end the call, the extraction runs anyway
NextStepSkipsFailure(p, step, raised) ==
    CASE step = "upload" -> "extract"
      [] step = "extract" -> IF raised THEN "done"
                             ELSE IF cfg.use_gemini THEN "refine" ELSE "store"
      [] step = "refine" -> "store"
      [] step = "store" -> "done"

\* variant: a failed step is tried again, up to MAX_RETRIES attempts
NextStepRetry(p, step, raised) ==
    IF raised
    THEN IF Count(trace[p], step) + 1 < MAX_RETRIES THEN step ELSE "done"
    ELSE CASE step = "upload" -> "extract"
           [] step = "extract" -> IF cfg.use_gemini THEN "refine" ELSE "store"
           [] step = "refine" -> "store"
           [] step = "store" -> "done"

\* where process_invoice goes after a collaborator step: any exception ends
\* the call in the except clause, otherwise the next statement runs
NextStep(p, step, raised) ==
    IF raised THEN "done"
    ELSE CASE step = "upload" -> "extract"
           [] step = "extract" -> IF cfg.use_gemini THEN "refine" ELSE "store"
           [] step = "refine" -> "store"
           [] step = "store" -> "done"

\* GCSClient.upload_file: the URI it returns
UploadUri(destination_blob_name) ==
    LET bucket_name == IF cfg.use_production_bucket
                       THEN GCS_PRODUCTION_BUCKET_NAME ELSE GCS_ADHOC_BUCKET_NAME
    IN <<"gs://">> \o bucket_name \o <<Sep>> \o destination_blob_name

\* variant: ad hoc files are stored under their file name alone
StoragePathByName(file_id, file_path, is_adhoc) ==
    IF is_adhoc THEN <<"invoices", Sep>> \o Basename(file_path) ELSE file_path

\* the storage path process_invoice uploads to
StoragePath(file_id, file_path, is_adhoc) ==
    IF is_adhoc
    THEN <<"invoices", Sep>> \o file_id \o <<"_">> \o Basename(file_path)
    ELSE file_path

\* the metadata process_invoice attaches to the extracted data
Metadata(c) ==
    [ invoice_id |-> c.file_id,
      storage_path |-> c.storage_path,
      gcs_uri |-> c.gcs_uri,
      is_production |-> ~c.is_adhoc,
      original_filename |-> Basename(c.file_path),
      project_name |-> c.project_name ]

\* the invoice_id column of a row of the invoices table
InvoiceKey(invoice_data) ==
    IF "invoice_id" \in DOMAIN invoice_data THEN invoice_data["invoice_id"] ELSE None

\* how the model's answer to the refinement prompt is classified
RefineOutcome(body) ==
    IF ~IsJson(body) THEN "not json"
    ELSE IF ~(ExpectedKeys \subseteq DOMAIN JsonLoads(body)) THEN "missing keys" ELSE "json"

Init ==
    /\ registry = <<>>
    /\ invoices = <<>>
    /\ now = 0
    /\ cfg \in [use_production_bucket : BOOLEAN, use_gemini : BOOLEAN]
    /\ pc = [p \in Procs |-> "idle"]
    /\ call = [p \in Procs |-> NoCall]
    /\ ret = [p \in Procs |-> NoDict]
    /\ trace = [p \in Procs |-> <<>>]
    /\ ncalls = 0
    /\ hist = [f \in FileIds |-> [calls |-> 0, inserts |-> 0, clean |-> TRUE]]
    /\ field = NoField

\* hist[f]: calls counts the completed get_or_create_file_id calls for f while
\* clean holds; clean is lost when two calls for f overlap or when a warehouse
\* call or os.stat fails in a call for f; inserts counts the accepted inserts

\* get_or_create_file_id is entered: the identifier is computed
EnterRegistry(p, file_path, is_adhoc, project_name, event) ==
    LET gid == GenerateFileId(file_path)
        overlap == \E q \in Procs \ {p} : pc[q] \in RegistryPcs /\ call[q].gid = gid
    IN /\ call' = [call EXCEPT ![p] =
                     [NoCall EXCEPT !.file_path = file_path, !.is_adhoc = is_adhoc,
                                    !.project_name = project_name, !.gid = gid,
                                    !.event = event]]
       /\ hist' = [hist EXCEPT ![gid].clean = @ /\ ~overlap]
       /\ pc' = [pc EXCEPT ![p] = "lookup"]
       /\ ret' = [ret EXCEPT ![p] = NoDict]
       /\ trace' = [trace EXCEPT ![p] = <<>>]
       /\ ncalls' = ncalls + 1
       /\ UNCHANGED <<registry, invoices, now>>

\* process_invoice is called: the path is made absolute and
\* get_or_create_file_id is entered
Start(p) ==
    /\ p \in Pipelines
    /\ pc[p] = "idle"
    /\ ncalls < MaxCalls
    /\ \E path \in Paths, is_adhoc \in BOOLEAN, project_name \in Projects :
         EnterRegistry(p, ResolvePath(path), is_adhoc, project_name, NoDict)
    /\ UNCHANGED cfg
    /\ UNCHANGED field

\* settings.USE_GEMINI, the default of the use_gemini argument
USE_GEMINI == TRUE

\* the events the trigger delivers: bucket and object name, or a payload
\* without the object name
Events ==
    { [bucket |-> GCS_ADHOC_BUCKET_NAME, name |-> <<"acme", Sep, ".", Sep, "a.pdf">>],
      [bucket |-> GCS_PRODUCTION_BUCKET_NAME, name |-> <<"acme", Sep, ".", Sep, "a.pdf">>],
      [bucket |-> GCS_ADHOC_BUCKET_NAME] }

\* the result of the except clause of process_invoice_cloud_function
CloudFailure(e) == [success |-> FALSE, error |-> e]

\* process_invoice_cloud_function(event, context): a processor is built for
\* the event's bucket and process_invoice(event["name"]) is called on it
CloudFunction(p) ==
    /\ p \in Pipelines
    /\ pc[p] = "idle"
    /\ ncalls < MaxCalls
    /\ \E event \in Events :
         IF {"bucket", "name"} \subseteq DOMAIN event
         THEN /\ cfg' = [ use_production_bucket |->
                             event["bucket"] = GCS_PRODUCTION_BUCKET_NAME,
                          use_gemini |-> USE_GEMINI ]
              /\ EnterRegistry(p, ResolvePath(event["name"]), FALSE, None, event)
         ELSE \* event["name"] raises KeyError
              /\ pc' = [pc EXCEPT ![p] = "done"]
              /\ call' = [call EXCEPT ![p] = [NoCall EXCEPT !.event = event]]
              /\ ret' = [ret EXCEPT ![p] = CloudFailure(<<"'name'">>)]
              /\ trace' = [trace EXCEPT ![p] = <<>>]
              /\ ncalls' = ncalls + 1
              /\ UNCHANGED <<registry, invoices, now, cfg, hist>>
    /\ UNCHANGED field

\* the second client calls get_or_create_file_id(file_path, is_production),
\* project_name left at its default
CallRegistry(p) ==
    /\ p \in Clients
    /\ pc[p] = "idle"
    /\ ncalls < MaxCalls
    /\ \E path \in Paths, is_production \in BOOLEAN :
         EnterRegistry(p, path, ~is_production, None, NoDict)
    /\ UNCHANGED cfg
    /\ UNCHANGED field

\* get_or_create_file_id returns to its caller (or raises: into the except
\* clause of process_invoice)
ReturnFileId(p, r, failed, inserted) ==
    /\ IF r.raised
       THEN /\ pc' = [pc EXCEPT ![p] = "done"]
            /\ ret' = [ret EXCEPT ![p] = Failure(InventoryError, call[p].file_path)]
            /\ UNCHANGED call
       ELSE /\ pc' = [pc EXCEPT ![p] = IF p \in Pipelines THEN "upload" ELSE "done"]
            /\ call' = [call EXCEPT ![p].file_id = r.value]
            /\ UNCHANGED ret
    /\ hist' = [hist EXCEPT ![call[p].gid] =
                  [ calls |-> IF @.clean /\ ~failed THEN @.calls + 1 ELSE 0,
                    inserts |-> @.inserts + (IF inserted THEN 1 ELSE 0),
                    clean |-> @.clean /\ ~failed ]]

\* get_or_create_file_id: the lookup query
Lookup(p) ==
    /\ pc[p] = "lookup"
    /\ trace' = [trace EXCEPT ![p] = Append(@, "lookup")]
    /\ \/ \* the query raises
          ReturnFileId(p, CatchInventoryError(call[p].gid), TRUE, FALSE)
       \/ \* the query answers
          /\ pc' = [pc EXCEPT ![p] =
                      IF LookupRows(registry, call[p].gid) # <<>> THEN "update" ELSE "insert"]
          /\ UNCHANGED <<call, ret, hist>>
    /\ UNCHANGED <<registry, invoices, now, cfg, ncalls>>
    /\ UNCHANGED field

\* get_or_create_file_id: the file is known, _update_file_processing
Update(p) ==
    /\ pc[p] = "update"
    /\ LET c == call[p]
           is_production == ~c.is_adhoc
       IN \/ \* os.stat fails
             /\ c.file_path # <<>>
             /\ ReturnFileId(p, CatchUpdateError(c.gid), TRUE, FALSE)
             /\ UNCHANGED <<registry, now, trace>>
          \/ \* project_name is read before it is bound
             /\ UpdateRaisesUnbound(c.file_path, is_production)
             /\ ReturnFileId(p, CatchUpdateError(c.gid), FALSE, FALSE)
             /\ UNCHANGED <<registry, now, trace>>
          \/ \* the UPDATE query fails
             /\ ~UpdateRaisesUnbound(c.file_path, is_production)
             /\ trace' = [trace EXCEPT ![p] = Append(@, "update")]
             /\ ReturnFileId(p, CatchUpdateError(c.gid), TRUE, FALSE)
             /\ UNCHANGED <<registry, now>>
          \/ \* the UPDATE query succeeds
             /\ ~UpdateRaisesUnbound(c.file_path, is_production)
             /\ trace' = [trace EXCEPT ![p] = Append(@, "update")]
             /\ registry' = UpdateRows(registry, c.gid, c.file_path, is_production,
                                      FileSize(c.file_path), now)
             /\ now' = now + 1
             /\ ReturnFileId(p, [raised |-> FALSE, value |-> c.gid], FALSE, FALSE)
    /\ UNCHANGED <<invoices, cfg, ncalls>>
    /\ UNCHANGED field

\* get_or_create_file_id: the file is new, a row is inserted
Insert(p) ==
    /\ pc[p] = "insert"
    /\ LET c == call[p]
       IN \/ \* os.stat fails
             /\ ReturnFileId(p, CatchInventoryError(c.gid), TRUE, FALSE)
             /\ UNCHANGED <<registry, now, trace>>
          \/ \* insert_rows_json raises
             /\ trace' = [trace EXCEPT ![p] = Append(@, "insert")]
             /\ ReturnFileId(p, CatchInventoryError(c.gid), TRUE, FALSE)
             /\ UNCHANGED <<registry, now>>
          \/ \* insert_rows_json returns row errors: logged
             /\ trace' = [trace EXCEPT ![p] = Append(@, "insert")]
             /\ ReturnFileId(p, [raised |-> FALSE, value |-> c.gid], TRUE, FALSE)
             /\ UNCHANGED <<registry, now>>
          \/ \* the row is inserted
             /\ trace' = [trace EXCEPT ![p] = Append(@, "insert")]
             /\ registry' = InsertRow(registry,
                               NewInventoryRow(c.gid, c.file_path, ~c.is_adhoc,
                                               c.project_name, FileSize(c.file_path), now))
             /\ now' = now + 1
             /\ ReturnFileId(p, [raised |-> FALSE, value |-> c.gid], FALSE, TRUE)
    /\ UNCHANGED <<invoices, cfg, ncalls>>
    /\ UNCHANGED field

\* process_invoice: upload to GCS
Upload(p) ==
    /\ pc[p] = "upload"
    /\ LET c == call[p]
           storage_path == StoragePath(c.file_id, c.file_path, c.is_adhoc)
       IN \E raised \in BOOLEAN :
            /\ trace' = [trace EXCEPT ![p] = Append(@, "upload")]
            /\ pc' = [pc EXCEPT ![p] = NextStep(p, "upload", raised)]
            /\ IF raised
               THEN /\ ret' = [ret EXCEPT ![p] = Failure(UploadError, c.file_path)]
                    /\ call' = [call EXCEPT ![p].storage_path = storage_path]
               ELSE /\ call' = [call EXCEPT ![p].storage_path = storage_path,
                                            ![p].gcs_uri = UploadUri(storage_path)]
                    /\ UNCHANGED ret
    /\ UNCHANGED <<registry, invoices, now, cfg, ncalls, hist>>
    /\ UNCHANGED field

\* process_invoice: document_ai_processor.process(file_path, metadata)
Extract(p) ==
    /\ pc[p] = "extract"
    /\ trace' = [trace EXCEPT ![p] = Append(@, "extract")]
    /\ LET c == call[p]
       IN \/ \* reading the file or the Document AI call raises
             /\ pc' = [pc EXCEPT ![p] = NextStep(p, "extract", TRUE)]
             /\ ret' = [ret EXCEPT ![p] = Failure(ExtractError, c.file_path)]
             /\ UNCHANGED call
          \/ \E document_data \in Documents :
               LET result == Process(document_data, Metadata(c))
               IN /\ pc' = [pc EXCEPT ![p] = NextStep(p, "extract", FALSE)]
                  /\ call' = [call EXCEPT ![p].pre = result, ![p].result = result]
                  /\ UNCHANGED ret
    /\ UNCHANGED <<registry, invoices, now, cfg, ncalls, hist>>
    /\ UNCHANGED field

\* process_invoice: gemini_processor.refine_invoice_data(result)
Refine(p) ==
    /\ pc[p] = "refine"
    /\ trace' = [trace EXCEPT ![p] = Append(@, "refine")]
    /\ \/ \* model.predict raises
          call' = [call EXCEPT ![p].result = RefineInvoiceData(@, TRUE, <<>>),
                               ![p].refined = "raise"]
       \/ \E body \in LlmBodies :
            call' = [call EXCEPT ![p].result = RefineInvoiceData(@, FALSE, body),
                                 ![p].refined = RefineOutcome(body)]
    /\ pc' = [pc EXCEPT ![p] = NextStep(p, "refine", FALSE)]
    /\ UNCHANGED <<registry, invoices, now, cfg, ret, ncalls, hist>>
    /\ UNCHANGED field

\* process_invoice: bigquery_client.store_invoice_data(result) and the return
Store(p) ==
    /\ pc[p] = "store"
    /\ trace' = [trace EXCEPT ![p] = Append(@, "store")]
    /\ LET c == call[p]
       IN \/ \* insert_rows_json raises: logged and raised again
             /\ pc' = [pc EXCEPT ![p] = NextStep(p, "store", TRUE)]
             /\ ret' = [ret EXCEPT ![p] = Failure(StoreError, c.file_path)]
             /\ UNCHANGED <<invoices, call>>
          \/ \* insert_rows_json returns row errors: logged, nothing raised
             /\ pc' = [pc EXCEPT ![p] = NextStep(p, "store", FALSE)]
             /\ ret' = [ret EXCEPT ![p] = Success(c)]
             /\ UNCHANGED <<invoices, call>>
          \/ \* the row is written
             /\ invoices' = Append(invoices, InvoiceKey(c.result))
             /\ call' = [call EXCEPT ![p].written = TRUE]
             /\ pc' = [pc EXCEPT ![p] = NextStep(p, "store", FALSE)]
             /\ ret' = [ret EXCEPT ![p] = Success(c)]
    /\ UNCHANGED <<registry, now, cfg, ncalls, hist>>
    /\ UNCHANGED field

\* the caller takes the result; the process is free for another invocation
Finish(p) ==
    /\ pc[p] = "done"
    /\ pc' = [pc EXCEPT ![p] = "idle"]
    /\ call' = [call EXCEPT ![p] = NoCall]
    /\ ret' = [ret EXCEPT ![p] = NoDict]
    /\ trace' = [trace EXCEPT ![p] = <<>>]
    /\ UNCHANGED <<registry, invoices, now, cfg, ncalls, hist>>
    /\ UNCHANGED field

Next ==
    \E p \in Procs :
      \/ Start(p)
      \/ CloudFunction(p)
      \/ CallRegistry(p)
      \/ Lookup(p)
      \/ Update(p)
      \/ Insert(p)
      \/ Upload(p)
      \/ Extract(p)
      \/ Refine(p)
      \/ Store(p)
      \/ Finish(p)

Spec == Init /\ [][Next]_vars

----------------------------------------------------------------------------
(* Field conversions: dates *)
(* Field values are texts of single characters, so that the conversions can *)
(* be computed character by character.                                      *)

DigitChars == <<"0", "1", "2", "3", "4", "5", "6", "7", "8", "9">>

IsDigit(c) == \E k \in 1..10 : DigitChars[k] = c

DigitVal(c) == (CHOOSE k \in 1..10 : DigitChars[k] = c) - 1

AllDigits(t) == \A i \in 1..Len(t) : IsDigit(t[i])

\* int(t) for a text of digits
RECURSIVE Num(_)
Num(t) ==
    IF t = <<>> THEN 0
    ELSE Num(SubSeq(t, 1, Len(t) - 1)) * 10 + DigitVal(t[Len(t)])

\* the decimal digits of a natural number
RECURSIVE ToDigits(_)
ToDigits(n) ==
    IF n < 10 THEN <<DigitChars[n + 1]>>
    ELSE Append(ToDigits(n \div 10), DigitChars[(n % 10) + 1])

\* t.split(sep)
RECURSIVE SplitOn(_, _)
SplitOn(t, sep) ==
    IF \A i \in 1..Len(t) : t[i] # sep THEN <<t>>
    ELSE LET i == CHOOSE j \in 1..Len(t) :
                     t[j] = sep /\ \A h \in 1..(j - 1) : t[h] # sep
         IN <<SubSeq(t, 1, i - 1)>> \o SplitOn(SubSeq(t, i + 1, Len(t)), sep)

\* the value strptime reads for one directive from the text between two
\* separators, -1 when the text does not match the directive:
\* %m 1[0-2]|0[1-9]|[1-9], %d 3[01]|[12]\d|0[1-9]|[1-9]| [1-9],
\* %Y \d\d\d\d, %y \d\d with 00-68 read as 20xx and 69-99 as 19xx
DirectiveValue(directive, t) ==
    CASE directive = "m" ->
           IF Len(t) \in {1, 2} /\ AllDigits(t) /\ Num(t) \in 1..12 THEN Num(t) ELSE -1
      [] directive = "d" ->
           IF Len(t) \in {1, 2} /\ AllDigits(t) /\ Num(t) \in 1..31 THEN Num(t)
           ELSE IF Len(t) = 2 /\ t[1] = " " /\ IsDigit(t[2]) /\ t[2] # "0"
                THEN DigitVal(t[2]) ELSE -1
      [] directive = "Y" ->
           IF Len(t) = 4 /\ AllDigits(t) THEN Num(t) ELSE -1
      [] directive = "y" ->
           IF Len(t) = 2 /\ AllDigits(t)
           THEN (IF Num(t) <= 68 THEN 2000 + Num(t) ELSE 1900 + Num(t))
           ELSE -1

IsLeap(y) == (y % 4 = 0 /\ y % 100 # 0) \/ y % 400 = 0

DaysIn(y, m) ==
    IF m = 2 THEN (IF IsLeap(y) THEN 29 ELSE 28)
    ELSE IF m \in {4, 6, 9, 11} THEN 30 ELSE 31

\* strptime raised ValueError
NoDate == [y |-> 0, m |-> 0, d |-> 0]

\* the formats the code passes to strptime: three directives and one separator
FmtMDY_Slash == [sep |-> "/", order |-> <<"m", "d", "Y">>]
FmtMDy_Slash == [sep |-> "/", order |-> <<"m", "d", "y">>]
FmtMDY_Dash == [sep |-> "-", order |-> <<"m", "d", "Y">>]
FmtYMD_Dash == [sep |-> "-", order |-> <<"Y", "m", "d">>]
FmtDMY_Slash == [sep |-> "/", order |-> <<"d", "m", "Y">>]
FmtDMY_Dash == [sep |-> "-", order |-> <<"d", "m", "Y">>]

\* datetime.strptime(date_str, fmt): the date, or NoDate for ValueError (the
\* text does not match, data remains, or the day is not in the month)
Strptime(date_str, fmt) ==
    LET parts == SplitOn(date_str, fmt.sep)
    IN IF Len(parts) # 3 THEN NoDate
       ELSE LET val(directive) ==
                    LET i == CHOOSE j \in 1..3 : fmt.order[j] \in directive
                    IN DirectiveValue(fmt.order[i], parts[i])
                y == val({"Y", "y"})
                m == val({"m"})
                d == val({"d"})
            IN IF y < 1 \/ m < 1 \/ d < 1 THEN NoDate
               ELSE IF d > DaysIn(y, m) THEN NoDate
               ELSE [y |-> y, m |-> m, d |-> d]

TwoDigits(n) == <<DigitChars[(n \div 10) + 1], DigitChars[(n % 10) + 1]>>

\* dt.strftime("%Y-%m-%d"); the C library decides whether %Y pads a year
\* below 1000 with zeros (glibc does not): pad_year is that choice
Strftime(dt, pad_year) ==
    LET digits == ToDigits(dt.y)
        year == IF pad_year /\ Len(digits) < 4
                THEN [i \in 1..(4 - Len(digits)) |-> "0"] \o digits
                ELSE digits
    IN year \o <<"-">> \o TwoDigits(dt.m) \o <<"-">> \o TwoDigits(dt.d)

\* "1900-01-01", the default date
SentinelDate == <<"1", "9", "0", "0", "-", "0", "1", "-", "0", "1">>

\* DocumentAIProcessor._convert_date_format: MM/DD/YY first, then MM/DD/YYYY
ConvertDateFormat(date_str, pad_year) ==
    IF date_str = <<>> THEN SentinelDate
    ELSE LET first == Strptime(date_str, FmtMDy_Slash)
             second == Strptime(date_str, FmtMDY_Slash)
         IN IF first # NoDate THEN Strftime(first, pad_year)
            ELSE IF second # NoDate THEN Strftime(second, pad_year)
            ELSE SentinelDate

\* BaseProcessor._convert_date_format: MM/DD/YYYY only
BaseConvertDateFormat(date_str, pad_year) ==
    IF date_str = <<>> THEN SentinelDate
    ELSE LET parsed_date == Strptime(date_str, FmtMDY_Slash)
         IN IF parsed_date # NoDate THEN Strftime(parsed_date, pad_year)
            ELSE SentinelDate

\* the formats convert_date of LLMClient._parse_document_ai_output tries
ConvertDateFormats ==
    <<FmtMDY_Slash, FmtMDY_Dash, FmtYMD_Dash, FmtDMY_Slash, FmtDMY_Dash>>

\* the first format of a list that parses the text, 0 when none does
FirstFormat(date_str, fmts) ==
    LET ok == { i \in 1..Len(fmts) : Strptime(date_str, fmts[i]) # NoDate }
    IN IF ok = {} THEN 0 ELSE CHOOSE i \in ok : \A j \in ok : i <= j

\* convert_date of LLMClient._parse_document_ai_output
ConvertDate(date_str, pad_year) ==
    LET i == FirstFormat(date_str, ConvertDateFormats)
    IN IF i = 0 THEN SentinelDate
       ELSE Strftime(Strptime(date_str, ConvertDateFormats[i]), pad_year)

\* the date texts the conversions are called with
DateParts ==
    { <<"0", "1">>, <<"1", "5">>, <<"3">>, <<"0", "3">>, <<"1", "3">>,
      <<"0", "2">>, <<"2", "9">>, <<"3", "0">> }
YearParts ==
    { <<"2", "0", "2", "4">>, <<"2", "0", "2", "3">>, <<"2", "4">>, <<"0", "9", "9", "9">> }
DateSeps == {"/", "-"}

DateStrings ==
    { a \o <<s1>> \o b \o <<s2>> \o y :
        a \in DateParts, b \in DateParts, y \in YearParts, s1 \in DateSeps, s2 \in DateSeps }
    \cup { y \o <<"-">> \o a \o <<"-">> \o b :
             y \in YearParts, a \in DateParts, b \in DateParts }
    \cup { <<>>, <<"N", "/", "A">>, <<"0", "1", "/", "1", "5", "/", "2", "0", "2", "4", " ">> }

\* a date conversion is called; all three implementations are applied
ConvertDates ==
    /\ field = NoField
    /\ \E date_str \in DateStrings, pad_year \in BOOLEAN :
         field' = [ op |-> "date", date_str |-> date_str,
                    document_ai |-> ConvertDateFormat(date_str, pad_year),
                    base |-> BaseConvertDateFormat(date_str, pad_year),
                    llm |-> ConvertDate(date_str, pad_year) ]
    /\ UNCHANGED pvars

----------------------------------------------------------------------------
(* Field conversions: amounts *)
(* A float is a record: kind "finite" with a sign, a decimal mantissa and   *)
(* the number of decimal places (trailing zeros removed), or kind "inf"     *)
(* with a sign, or kind "nan".                                              *)

Zero == [kind |-> "finite", neg |-> FALSE, mant |-> 0, scale |-> 0]

\* float() rejects the text
ValueError == [kind |-> "ValueError"]

WhitespaceChars == {" ", "\t", "\n"}

\* t.strip()
RECURSIVE Strip(_)
Strip(t) ==
    IF t = <<>> THEN t
    ELSE IF t[1] \in WhitespaceChars THEN Strip(Tail(t))
    ELSE IF t[Len(t)] \in WhitespaceChars THEN Strip(SubSeq(t, 1, Len(t) - 1))
    ELSE t

\* t.replace(c, "")
Remove(t, c) == SelectSeq(t, LAMBDA x : x # c)

LowerChar(c) ==
    CASE c = "I" -> "i" [] c = "N" -> "n" [] c = "F" -> "f" [] c = "T" -> "t"
      [] c = "Y" -> "y" [] c = "A" -> "a" [] c = "E" -> "e" [] OTHER -> c

Lower(t) == [i \in 1..Len(t) |-> LowerChar(t[i])]

RECURSIVE Pow10(_)
Pow10(n) == IF n = 0 THEN 1 ELSE 10 * Pow10(n - 1)

\* digit (["_"] digit)*
DigitGroup(t) ==
    /\ t # <<>>
    /\ \A i \in 1..Len(t) : IsDigit(t[i]) \/ t[i] = "_"
    /\ IsDigit(t[1]) /\ IsDigit(t[Len(t)])
    /\ \A i \in 1..(Len(t) - 1) : ~(t[i] = "_" /\ t[i + 1] = "_")

\* the largest and smallest decimal exponents of a double
MaxExp10 == 308
MinExp10 == -324

RECURSIVE NormFloat(_, _, _)
NormFloat(neg, m, sc) ==
    IF m = 0 THEN [kind |-> "finite", neg |-> neg, mant |-> 0, scale |-> 0]
    ELSE IF sc < 0 THEN NormFloat(neg, m * Pow10(-sc), 0)
    ELSE IF sc > 0 /\ m % 10 = 0 THEN NormFloat(neg, m \div 10, sc - 1)
    ELSE [kind |-> "finite", neg |-> neg, mant |-> m, scale |-> sc]

\* the float with mantissa m and sc decimal places; beyond the range of a
\* double it is an infinity, below it a zero
MkFloat(neg, m, sc) ==
    LET magnitude == Len(ToDigits(m)) - sc
    IN IF m # 0 /\ magnitude > MaxExp10 + 1 THEN [kind |-> "inf", neg |-> neg]
       ELSE IF m # 0 /\ magnitude < MinExp10 THEN NormFloat(neg, 0, 0)
       ELSE NormFloat(neg, m, sc)

\* float() of a text without sign: [digits][.[digits]][e[sign]digits]
DecimalFloat(body, neg) ==
    LET eparts == SplitOn(body, "e")
        mparts == SplitOn(eparts[1], ".")
        ip == mparts[1]
        fp == IF Len(mparts) = 2 THEN mparts[2] ELSE <<>>
        ex == IF Len(eparts) = 2 THEN eparts[2] ELSE <<"0">>
        exneg == ex # <<>> /\ ex[1] = "-"
        exdigits == IF ex # <<>> /\ ex[1] \in {"-", "+"} THEN Tail(ex) ELSE ex
        e == Num(Remove(exdigits, "_"))
        frac == Remove(fp, "_")
    IN IF /\ Len(eparts) <= 2
          /\ Len(mparts) <= 2
          /\ ip # <<>> \/ fp # <<>>
          /\ ip = <<>> \/ DigitGroup(ip)
          /\ fp = <<>> \/ DigitGroup(fp)
          /\ DigitGroup(exdigits)
       THEN MkFloat(neg, Num(Remove(ip, "_") \o frac),
                    IF exneg THEN Len(frac) + e ELSE Len(frac) - e)
       ELSE ValueError

\* float(t): surrounding whitespace is ignored, a sign may lead, the words
\* inf, infinity and nan are read in any case
ParseFloat(t) ==
    LET s == Strip(t)
        signed == s # <<>> /\ s[1] \in {"-", "+"}
        neg == s # <<>> /\ s[1] = "-"
        body == Lower(IF signed THEN Tail(s) ELSE s)
    IN IF body \in {<<"i", "n", "f">>, <<"i", "n", "f", "i", "n", "i", "t", "y">>}
       THEN [kind |-> "inf", neg |-> neg]
       ELSE IF body = <<"n", "a", "n">> THEN [kind |-> "nan"]
       ELSE DecimalFloat(body, neg)

\* BaseProcessor._convert_amount, inherited by DocumentAIProcessor
ConvertAmount(amount_str) ==
    IF amount_str = <<>> THEN Zero
    ELSE LET cleaned == SelectSeq(amount_str, LAMBDA c : IsDigit(c) \/ c = ".")
             value == ParseFloat(cleaned)
         IN IF value = ValueError THEN Zero ELSE value

\* SimpleInvoiceProcessor._convert_amount
SimpleConvertAmount(amount_str) ==
    IF amount_str = <<>> THEN Zero
    ELSE LET clean_amount == Strip(Remove(Remove(amount_str, "$"), ","))
             value == ParseFloat(clean_amount)
         IN IF value = ValueError THEN Zero ELSE value

\* convert_currency of LLMClient._parse_document_ai_output
ConvertCurrency(amount_str) ==
    LET cleaned == Strip(Remove(Remove(amount_str, "$"), ","))
        value == ParseFloat(cleaned)
    IN IF value = ValueError THEN Zero ELSE value

\* the amount texts the conversions are called with
AmountPrefixes ==
    { <<>>, <<"$">>, <<"-">>, <<"-", "$">>, <<"€">>, <<"+">>, <<" ">>,
      <<"U", "S", "$", " ">> }
AmountBodies ==
    { <<"1", ",", "2", "0", "0", ".", "5", "0">>, <<"5">>,
      <<"1", "2", ".", "5">>, <<"1", ".", "2", ".", "3">>, <<"i", "n", "f">>,
      <<"n", "a", "n">>, <<"N", "a", "N">>,
      <<"I", "n", "f", "i", "n", "i", "t", "y">>, <<"a", "b", "c">>, <<>>,
      <<"1", "e", "5">>, <<"1", "E", "-", "2">>, <<"1", "e", "9", "9", "9">>,
      <<"1", "e", "-", "9", "9", "9">>, <<".">>, <<"0">>,
      <<"1", "_", "0", "0", "0">>, <<"_", "5">>, <<".", "5">>, <<"5", ".">> }
AmountSuffixes ==
    { <<>>, <<" ">>, <<"-">> }

AmountStrings ==
    { a \o b \o c : a \in AmountPrefixes, b \in AmountBodies, c \in AmountSuffixes }
    \cup { <<"(", "5", ".", "0", "0", ")">>, <<"1", " ", "2", "0", "0">> }

\* an amount conversion is called; all three implementations are applied
ConvertAmounts ==
    /\ field = NoField
    /\ \E amount_str \in AmountStrings :
         field' = [ op |-> "amount", amount_str |-> amount_str,
                    base |-> ConvertAmount(amount_str),
                    simple |-> SimpleConvertAmount(amount_str),
                    llm |-> ConvertCurrency(amount_str) ]
    /\ UNCHANGED pvars

----------------------------------------------------------------------------
(* Record building: DocumentAIProcessor._extract_entities of the pipeline,  *)
(* LLMClient._refine_with_gemini with _parse_response, and                 *)
(* GeminiInvoiceProcessor._extract_line_items                              *)

\* mention texts of the documents of the model
UsDateText == <<"0", "1", "/", "1", "5", "/", "2", "0", "2", "4">>
IsoDateText == <<"2", "0", "2", "4", "-", "0", "1", "-", "1", "5">>
OldDateText == <<"0", "1", "/", "1", "5", "/", "0", "9", "9", "9">>
UsdAmountText == <<"$", "1", ",", "2", "0", "0", ".", "5", "0">>
NegAmountText == <<"-", "5">>
InfAmountText == <<"i", "n", "f">>
NaText == <<"N", "/", "A">>
TwoText == <<"t", "w", "o">>
ThousandText == <<"1", ",", "0", "0", "0">>

\* d.get(k, default)
DictGet(d, k, default) == IF k \in DOMAIN d THEN d[k] ELSE default

\* the mention texts of the date and amount entities of a document
EntityDates == { <<>>, UsDateText, IsoDateText, OldDateText }
EntityAmounts == { <<>>, UsdAmountText, NegAmountText, InfAmountText, NaText }

\* DocumentAIProcessor._extract_entities: _get_entity_value gives the empty
\* text for an entity the document does not have
ExtractEntitiesRecord(invoice_date, due_date, total_amount, pad_year) ==
    [ invoice_date |-> ConvertDateFormat(invoice_date, pad_year),
      due_date |-> ConvertDateFormat(due_date, pad_year),
      total_amount |-> ConvertAmount(total_amount) ]

ExtractEntities ==
    /\ field = NoField
    /\ \E invoice_date \in EntityDates, due_date \in EntityDates,
          total_amount \in EntityAmounts, pad_year \in BOOLEAN :
         field' = [ op |-> "extract_entities",
                    entities |-> [ invoice_date |-> invoice_date, due_date |-> due_date,
                                   total_amount |-> total_amount ],
                    raised |-> FALSE,
                    record |-> ExtractEntitiesRecord(invoice_date, due_date,
                                                     total_amount, pad_year) ]
    /\ UNCHANGED pvars

EntityTexts ==
    { <<>>, UsDateText, IsoDateText, UsdAmountText, NegAmountText, InfAmountText, NaText }

\* the entities dictionary LLMClient._extract_entities hands on: the raw
\* mention text of every entity the document has
EntityDicts ==
    UNION { [ keys -> EntityTexts ] : keys \in SUBSET {"invoice_date", "total_amount"} }

\* the structured_data of _refine_with_gemini, the same dictionary as that
\* of _fallback_data; float() is not guarded here
StructuredData(entities) ==
    LET text == DictGet(entities, "total_amount", <<"0">>)
        total_amount == IF Falsy(DictGet(entities, "total_amount", None))
                        THEN Zero
                        ELSE ParseFloat(Remove(Remove(text, "$"), ","))
    IN IF total_amount = ValueError
       THEN [ raised |-> TRUE, record |-> NoDict ]
       ELSE [ raised |-> FALSE,
              record |-> [ invoice_date |-> DictGet(entities, "invoice_date", SentinelDate),
                           due_date |-> DictGet(entities, "due_date", SentinelDate),
                           total_amount |-> total_amount ] ]

\* what json.loads makes of the text between the braces of the answer
JSONDecodeError == [ error |-> "JSONDecodeError" ]

\* an amount that is a JSON string
JsonString(text) == [kind |-> "str", text |-> text]

JsonAnswers ==
    UNION { [ keys -> {UsDateText, IsoDateText} ] :
              keys \in SUBSET {"invoice_date", "due_date"} }

JsonAmounts ==
    { Zero, [kind |-> "finite", neg |-> TRUE, mant |-> 5, scale |-> 0],
      JsonString(UsdAmountText) }

\* LLMClient._parse_response: the required fields the answer lacks get
\* their defaults; on JSONDecodeError the handler names document_ai_output,
\* which this function does not have, and raises NameError
LlmParseResponse(data, total_amount) ==
    IF data = JSONDecodeError THEN [ raised |-> TRUE, record |-> NoDict ]
    ELSE [ raised |-> FALSE,
           record |-> [ invoice_date |-> DictGet(data, "invoice_date", SentinelDate),
                        due_date |-> DictGet(data, "due_date", SentinelDate),
                        total_amount |-> total_amount ] ]

\* LLMClient._refine_with_gemini: answered is FALSE when generate_content
\* raised
RefineWithGeminiRecord(entities, use_gemini, answered, data, total_amount) ==
    LET structured_data == StructuredData(entities)
        refined_data == LlmParseResponse(data, total_amount)
    IN IF structured_data.raised \/ ~use_gemini \/ ~answered \/ refined_data.raised
       THEN structured_data
       ELSE refined_data

\* LLMClient.process_invoice calls _refine_with_gemini when use_gemini is set
RefineWithGemini ==
    /\ field = NoField
    /\ \E entities \in EntityDicts :
         \/ \E answered \in BOOLEAN :
              field' = [ op |-> "refine_with_gemini", entities |-> entities,
                         answer |-> IF answered THEN "not json" ELSE "raise" ]
                       @@ RefineWithGeminiRecord(entities, TRUE, answered,
                                                 JSONDecodeError, Zero)
         \/ \E data \in JsonAnswers, total_amount \in JsonAmounts :
              field' = [ op |-> "refine_with_gemini", entities |-> entities,
                         answer |-> "json" ]
                       @@ RefineWithGeminiRecord(entities, TRUE, TRUE, data, total_amount)
    /\ UNCHANGED pvars

\* the mention texts of the properties of a line_item entity
LineTexts == { <<>>, <<"2">>, TwoText, ThousandText }

\* float(x or 0) of GeminiInvoiceProcessor._extract_line_items
FloatOrZero(text) == IF text = <<>> THEN Zero ELSE ParseFloat(text)

\* GeminiInvoiceProcessor._extract_line_items for a document with one
\* line_item entity; _get_nested_entity gives the empty text for a property
\* the entity does not have
ExtractLineItemsRecord(properties) ==
    LET item == [ quantity |-> FloatOrZero(properties.quantity),
                  unit_price |-> FloatOrZero(properties.unit_price),
                  amount |-> FloatOrZero(properties.amount) ]
    IN IF \E k \in DOMAIN item : item[k] = ValueError
       THEN [ raised |-> TRUE, record |-> NoDict ]
       ELSE [ raised |-> FALSE, record |-> item ]

ExtractLineItems ==
    /\ field = NoField
    /\ \E properties \in [ {"quantity", "unit_price", "amount"} -> LineTexts ] :
         field' = [ op |-> "extract_line_items", entities |-> properties ]
                  @@ ExtractLineItemsRecord(properties)
    /\ UNCHANGED pvars

----------------------------------------------------------------------------
(* Due dates: calculate_due_date and the record built by                    *)
(* LLMClient._parse_document_ai_output                                      *)

\* days before January 1 of year y, counted from 0001-01-01
DaysBeforeYear(y) ==
    (y - 1) * 365 + ((y - 1) \div 4) - ((y - 1) \div 100) + ((y - 1) \div 400)

RECURSIVE DaysBeforeMonth(_, _)
DaysBeforeMonth(y, m) ==
    IF m = 1 THEN 0 ELSE DaysBeforeMonth(y, m - 1) + DaysIn(y, m - 1)

\* datetime.toordinal
ToOrdinal(dt) == DaysBeforeYear(dt.y) + DaysBeforeMonth(dt.y, dt.m) + dt.d

\* datetime.max.toordinal(), 9999-12-31
MaxOrdinal == 3652059

\* datetime.fromordinal, for 1 <= n <= MaxOrdinal
FromOrdinal(n) ==
    LET y == CHOOSE k \in ((n \div 366) + 1)..((n \div 365) + 1) :
                 DaysBeforeYear(k) < n /\ n <= DaysBeforeYear(k + 1)
        rest == n - DaysBeforeYear(y)
        m == CHOOSE k \in 1..12 :
                 DaysBeforeMonth(y, k) < rest /\ rest <= DaysBeforeMonth(y, k) + DaysIn(y, k)
    IN [y |-> y, m |-> m, d |-> rest - DaysBeforeMonth(y, m)]

\* the fixed text before and after the day count in the terms pattern
NtoPrefix == <<"N", "T", "O", " ", "i", "s", " ", "i", "s", "s", "u", "e", "d", " ", "a", "t", " ">>
NtoSuffix == <<" ", "d", "a", "y", "s">>

StartsWith(t, i, w) ==
    /\ i + Len(w) - 1 <= Len(t)
    /\ \A k \in 1..Len(w) : t[i + k - 1] = w[k]

\* the end of the longest run of digits of t that starts at position i
RECURSIVE DigitRunEnd(_, _)
DigitRunEnd(t, i) ==
    IF i <= Len(t) /\ IsDigit(t[i]) THEN DigitRunEnd(t, i + 1) ELSE i - 1

\* the pattern NTO is issued at (\d+) days matches t at position i
NtoMatchAt(t, i) ==
    /\ StartsWith(t, i, NtoPrefix)
    /\ LET first == i + Len(NtoPrefix)
           last == DigitRunEnd(t, first)
       IN last >= first /\ StartsWith(t, last + 1, NtoSuffix)

\* re.search of the pattern in the payment terms: group(1), or the empty
\* text when the pattern does not match
NtoSearch(payment_terms) ==
    IF \E i \in 1..Len(payment_terms) : NtoMatchAt(payment_terms, i)
    THEN LET i == CHOOSE j \in 1..Len(payment_terms) :
                      /\ NtoMatchAt(payment_terms, j)
                      /\ \A h \in 1..(j - 1) : ~NtoMatchAt(payment_terms, h)
             first == i + Len(NtoPrefix)
         IN SubSeq(payment_terms, first, DigitRunEnd(payment_terms, first))
    ELSE <<>>

\* calculate_due_date: ValueError of strptime is caught; the OverflowError of
\* the date addition, when the sum is past 9999-12-31, is not
CalculateDueDate(invoice_date, payment_terms, pad_year) ==
    LET invoice_dt == Strptime(invoice_date, FmtYMD_Dash)
        nto_match == NtoSearch(payment_terms)
        days == Num(nto_match)
    IN IF invoice_dt = NoDate THEN [raised |-> FALSE, value |-> SentinelDate]
       ELSE IF nto_match = <<>> THEN [raised |-> FALSE, value |-> SentinelDate]
       ELSE IF ToOrdinal(invoice_dt) + days > MaxOrdinal
            THEN [raised |-> TRUE, value |-> <<>>]
       ELSE [ raised |-> FALSE,
              value |-> Strftime(FromOrdinal(ToOrdinal(invoice_dt) + days), pad_year) ]

\* the invoice_date and payment_terms entities of the documents of the model
DueDateTexts ==
    { <<"2", "0", "2", "4", "-", "0", "1", "-", "1", "5">>,
      <<"0", "2", "/", "2", "9", "/", "2", "0", "2", "4">>,
      <<"2", "0", "2", "3", "-", "1", "2", "-", "3", "1">>,
      <<"1", "9", "0", "0", "-", "0", "1", "-", "0", "1">>,
      <<"9", "9", "9", "9", "-", "1", "2", "-", "1", "5">>,
      <<"0", "9", "9", "9", "-", "1", "2", "-", "3", "1">>,
      <<"2", "0", "2", "4", "-", "1", "-", "5">>,
      <<"N", "/", "A">>,
      <<>> }
PaymentTerms ==
    { <<"N", "T", "O", " ", "i", "s", " ", "i", "s", "s", "u", "e", "d", " ", "a", "t", " ", "3", "0", " ", "d", "a", "y", "s">>,
      <<"N", "e", "t", " ", "3", "0">>,
      <<>>,
      <<"N", "T", "O", " ", "i", "s", " ", "i", "s", "s", "u", "e", "d", " ", "a", "t", " ", "9", "9", "9", "9", "9", "9", "9", " ", "d", "a", "y", "s">>,
      <<"N", "T", "O", " ", "i", "s", " ", "i", "s", "s", "u", "e", "d", " ", "a", "t", " ", "0", " ", "d", "a", "y", "s">>,
      <<"T", "e", "r", "m", "s", ":", " ", "N", "T", "O", " ", "i", "s", " ", "i", "s", "s", "u", "e", "d", " ", "a", "t", " ", "3", "6", "6", " ", "d", "a", "y", "s", ".">>,
      <<"N", "T", "O", " ", "i", "s", " ", "i", "s", "s", "u", "e", "d", " ", "a", "t", " ", " ", "d", "a", "y", "s">>,
      <<"N", "T", "O", " ", "i", "s", " ", "i", "s", "s", "u", "e", "d", " ", "a", "t", " ", "4", "5", " ", "d", "a", "y">> }

\* LLMClient._parse_document_ai_output: the date is converted, the due date
\* is calculated when the date is not the sentinel and there are terms
ParseDocumentAiOutputRecord(entities, pad_year) ==
    LET invoice_date == ConvertDate(DictGet(entities, "invoice_date", <<>>), pad_year)
        payment_terms == DictGet(entities, "payment_terms", <<>>)
        due == IF invoice_date # SentinelDate /\ payment_terms # <<>>
               THEN CalculateDueDate(invoice_date, payment_terms, pad_year)
               ELSE [raised |-> FALSE, value |-> SentinelDate]
    IN IF due.raised THEN [ raised |-> TRUE, record |-> NoDict ]
       ELSE [ raised |-> FALSE,
              record |-> [ invoice_date |-> invoice_date,
                           due_date |-> due.value,
                           total_amount |-> ConvertCurrency(DictGet(entities, "total_amount", <<>>)),
                           payment_terms |-> payment_terms ] ]

ParseDocumentAiOutput ==
    /\ field = NoField
    /\ \E invoice_date \in DueDateTexts, payment_terms \in PaymentTerms, pad_year \in BOOLEAN :
         LET entities == [ invoice_date |-> invoice_date, payment_terms |-> payment_terms ]
         IN field' = [ op |-> "parse_document_ai_output", entities |-> entities ]
                     @@ ParseDocumentAiOutputRecord(entities, pad_year)
    /\ UNCHANGED pvars

----------------------------------------------------------------------------
(* Line items: the extraction of BaseProcessor, SimpleInvoiceProcessor and  *)
(* DocumentAIProcessor, and the refinement of GeminiInvoiceProcessor        *)

\* the longest list of entities, table rows or answered items of a document
MaxItems == 2

SeqsUpTo(S) == UNION { [1..n -> S] : n \in 0..MaxItems }

\* Python's None where a number is expected
NoneValue == [kind |-> "None"]

\* v > 0 for a float
Positive(v) ==
    \/ v.kind = "inf" /\ ~v.neg
    \/ v.kind = "finite" /\ ~v.neg /\ v.mant > 0

WidgetText == <<"W", "i", "d", "g", "e", "t">>

\* the properties of the line_item entities of the documents of the model,
\* under the property types a processor reads
LineEntities(description, quantity, unit_price, amount) ==
    { (description :> WidgetText) @@ (quantity :> <<"2">>)
        @@ (unit_price :> <<"$", "5", ".", "0", "0">>) @@ (amount :> <<"1", "0", ".", "0", "0">>),
      <<>>,
      (description :> <<>>) @@ (quantity :> <<"0">>),
      (amount :> <<"1", "0", ".", "0", "0">>),
      (description :> WidgetText) @@ (quantity :> NegAmountText),
      (quantity :> NaText) }

\* the filter of the extraction: an item is kept when
\* description or quantity > 0 or unit_price > 0 or amount > 0
KeepLineItem(item) ==
    \/ item.description # <<>>
    \/ Positive(item.quantity)
    \/ Positive(item.unit_price)
    \/ Positive(item.amount)

\* variant: the filter also drops the first item it would keep
LineItemFilterDropsFirst(items) ==
    LET kept == SelectSeq(items, KeepLineItem)
    IN IF kept = <<>> THEN kept ELSE Tail(kept)

LineItemFilter(items) == SelectSeq(items, KeepLineItem)

\* BaseProcessor._extract_line_items: one candidate item per line_item
\* entity, amounts by _convert_amount, then the filter
BaseLineItem(properties) ==
    [ description |-> DictGet(properties, "line_item/description", <<>>),
      quantity |-> ConvertAmount(DictGet(properties, "line_item/quantity", <<"0">>)),
      unit_price |-> ConvertAmount(DictGet(properties, "line_item/unit_price", <<"0">>)),
      amount |-> ConvertAmount(DictGet(properties, "line_item/amount", <<"0">>)) ]

BaseExtractLineItemsList(entities) ==
    LineItemFilter([ i \in 1..Len(entities) |-> BaseLineItem(entities[i]) ])

BaseExtractLineItems ==
    /\ field = NoField
    /\ \E entities \in SeqsUpTo(LineEntities("line_item/description", "line_item/quantity",
                                             "line_item/unit_price", "line_item/amount")) :
         field' = [ op |-> "base_line_items", entities |-> entities,
                    candidates |-> [ i \in 1..Len(entities) |-> BaseLineItem(entities[i]) ],
                    line_items |-> BaseExtractLineItemsList(entities) ]
    /\ UNCHANGED pvars

\* SimpleInvoiceProcessor._extract_line_items: every line_item entity gives
\* an item, amounts by its own _convert_amount; nothing is filtered
SimpleLineItem(properties) ==
    [ description |-> DictGet(properties, "item_description", <<>>),
      quantity |-> SimpleConvertAmount(DictGet(properties, "quantity", <<>>)),
      unit_price |-> SimpleConvertAmount(DictGet(properties, "unit_price", <<>>)),
      amount |-> SimpleConvertAmount(DictGet(properties, "amount", <<>>)) ]

SimpleExtractLineItemsList(entities) ==
    [ i \in 1..Len(entities) |-> SimpleLineItem(entities[i]) ]

SimpleExtractLineItems ==
    /\ field = NoField
    /\ \E entities \in SeqsUpTo(LineEntities("item_description", "quantity",
                                             "unit_price", "amount")) :
         field' = [ op |-> "simple_line_items", entities |-> entities,
                    line_items |-> SimpleExtractLineItemsList(entities) ]
    /\ UNCHANGED pvars

\* the cells of the body rows of the first page's tables
TableRows ==
    { <<WidgetText, <<"2">>, <<"$", "5", ".", "0", "0">>, <<"1", "0", ".", "0", "0">>>>,
      <<WidgetText, <<>>, <<" ">>, <<"1", "0", ".", "0", "0">>>>,
      <<WidgetText, <<"-", "2">>, <<"$", "5", ".", "0", "0">>, <<"-", "1", "0">>>>,
      <<<<>>, <<"2">>, <<"5">>, <<"1", "0">>>>,
      <<WidgetText, <<"t", "w", "o">>, <<"5">>, <<"1", "0">>>>,
      <<WidgetText, <<"2">>, <<"5">>>>,
      <<<<>>, <<"2">>, <<"5">>, <<"1", "0">>, <<"S", "K", "U", "-", "1">>>>,
      <<WidgetText, <<>>, <<"5">>, <<>>>> }

\* the lines of document.text, each split at white space
TextLines == 
    << <<<<"2">>, WidgetText, <<"$", "5", ".", "0", "0">>, <<"$", "1", "0", ".", "0", "0">>>>,
       <<<<"T", "o", "t", "a", "l">>, <<"d", "u", "e">>, <<"n", "o", "w">>, <<"1", "0">>>>,
       <<<<"-", "1">>, <<"D", "i", "s", "c", "o", "u", "n", "t">>, <<"5">>, <<"-", "5">>>>,
       <<<<"T", "h", "a", "n", "k">>, <<"y", "o", "u">>>> >>
DocumentTexts ==
    { <<>>, <<TextLines[1]>>, <<TextLines[2], TextLines[4]>>, <<TextLines[1], TextLines[3]>> }

\* a row or line that gives no item
Skip == [skip |-> TRUE]

\* float(cell) when the cell is not blank, None otherwise
CellNumber(cell) ==
    IF Strip(cell) # <<>> THEN ParseFloat(Remove(Strip(cell), "$")) ELSE NoneValue

\* DocumentAIProcessor._extract_line_items, one body row: needs four cells;
\* the quantity cell is read as it is, the two price cells without "$"; a
\* cell float() rejects skips the row
TableRowItem(cells) ==
    IF Len(cells) < 4 THEN Skip
    ELSE LET quantity == IF Strip(cells[2]) # <<>> THEN ParseFloat(Strip(cells[2]))
                         ELSE NoneValue
             unit_price == CellNumber(cells[3])
             amount == CellNumber(cells[4])
             description == IF Strip(cells[1]) = <<>> /\ Len(cells) > 4
                            THEN Strip(cells[5]) ELSE Strip(cells[1])
         IN IF ValueError \in {quantity, unit_price, amount} THEN Skip
            ELSE IF description # <<>> /\ (quantity # NoneValue \/ amount # NoneValue)
                 THEN [ description |-> description, quantity |-> quantity,
                        unit_price |-> unit_price, amount |-> amount ]
                 ELSE Skip

\* " ".join(parts)
RECURSIVE JoinParts(_)
JoinParts(parts) ==
    IF parts = <<>> THEN <<>>
    ELSE IF Len(parts) = 1 THEN parts[1]
    ELSE parts[1] \o <<" ">> \o JoinParts(Tail(parts))

\* DocumentAIProcessor._extract_line_items, one line of the raw text:
\* quantity description... unit_price amount
TextLineItem(parts) ==
    IF Len(parts) < 4 THEN Skip
    ELSE LET quantity == ParseFloat(parts[1])
             unit_price == ParseFloat(Remove(parts[Len(parts) - 1], "$"))
             amount == ParseFloat(Remove(parts[Len(parts)], "$"))
         IN IF ValueError \in {quantity, unit_price, amount} THEN Skip
            ELSE [ description |-> JoinParts(SubSeq(parts, 2, Len(parts) - 2)),
                   quantity |-> quantity, unit_price |-> unit_price, amount |-> amount ]

TableItems(rows) ==
    SelectSeq([ i \in 1..Len(rows) |-> TableRowItem(rows[i]) ], LAMBDA x : x # Skip)

TextItems(lines) ==
    SelectSeq([ i \in 1..Len(lines) |-> TextLineItem(lines[i]) ], LAMBDA x : x # Skip)

\* DocumentAIProcessor._extract_line_items: the items of the tables, and
\* those of the raw text when the tables gave none
DocumentAiExtractLineItemsList(rows, lines) ==
    IF TableItems(rows) # <<>> THEN TableItems(rows) ELSE TextItems(lines)

\* document.pages[0] raises IndexError for a document without pages
DocumentAiExtractLineItems ==
    /\ field = NoField
    /\ \E rows \in SeqsUpTo(TableRows), lines \in DocumentTexts, pages \in BOOLEAN :
         field' = [ op |-> "document_ai_line_items", rows |-> rows, lines |-> lines,
                    raised |-> ~pages,
                    line_items |-> IF pages THEN DocumentAiExtractLineItemsList(rows, lines)
                                   ELSE <<>> ]
    /\ UNCHANGED pvars

\* candidate line items: what an extraction holds for an entity before the
\* filter decides on it
CandidateNumbers ==
    { Zero, [kind |-> "finite", neg |-> FALSE, mant |-> 2, scale |-> 0],
      [kind |-> "finite", neg |-> TRUE, mant |-> 2, scale |-> 0], [kind |-> "nan"] }

CandidateItems ==
    [ description : {<<>>, WidgetText}, quantity : CandidateNumbers,
      unit_price : {Zero},
      amount : {Zero, [kind |-> "finite", neg |-> FALSE, mant |-> 10, scale |-> 0]} ]

\* the filter is applied to a list of candidates, and again to what it kept
ApplyFilter ==
    /\ field = NoField
    /\ \E items \in SeqsUpTo(CandidateItems) :
         field' = [ op |-> "filter", items |-> items,
                    once |-> LineItemFilter(items),
                    twice |-> LineItemFilter(LineItemFilter(items)) ]
    /\ UNCHANGED pvars

\* the records handed to the refinement: what the extraction built, with
\* the line items of the structured extraction
StructuredLineItems ==
    { <<>>,
      << [ description |-> WidgetText,
           quantity |-> [kind |-> "finite", neg |-> FALSE, mant |-> 2, scale |-> 0],
           unit_price |-> [kind |-> "finite", neg |-> FALSE, mant |-> 5, scale |-> 0],
           amount |-> [kind |-> "finite", neg |-> FALSE, mant |-> 10, scale |-> 0] ] >> }

InvoiceData(line_items) ==
    [ invoice_id |-> <<"uuid4">>,
      invoice_number |-> <<"7">>,
      invoice_date |-> IsoDateText,
      due_date |-> SentinelDate,
      total_amount |-> [kind |-> "finite", neg |-> FALSE, mant |-> 10, scale |-> 0],
      vendor_name |-> <<"A", "c", "m", "e">>,
      vendor_address |-> <<>>,
      notes |-> <<>>,
      payment_terms |-> <<"N", "e", "t", " ", "3", "0">>,
      raw_data |-> <<"2", " ", "W", "i", "d", "g", "e", "t", " ", "$", "5", ".", "0", "0", " ", "$", "1", "0", ".", "0", "0">>,
      line_items |-> line_items ]

\* the items of a JSON array the model answers with
AnswerItems ==
    { [ description |-> <<"G", "a", "d", "g", "e", "t">>,
        quantity |-> [kind |-> "finite", neg |-> FALSE, mant |-> 1, scale |-> 0],
        unit_price |-> [kind |-> "finite", neg |-> FALSE, mant |-> 10, scale |-> 0],
        amount |-> [kind |-> "finite", neg |-> FALSE, mant |-> 10, scale |-> 0] ],
      [ description |-> <<>>, quantity |-> Zero, unit_price |-> Zero, amount |-> Zero ] }

\* a JSON answer that is an object, not an array
JsonObject == [ message |-> <<"n", "o", " ", "i", "t", "e", "m", "s">> ]

\* variant: the refined list is returned in place of the record
RefineLineItemsRecordOnlyItems(invoice_data, answer, refined_line_items) ==
    IF answer \in {"raise", "not json"} THEN invoice_data
    ELSE [ line_items |-> refined_line_items ]

\* GeminiInvoiceProcessor.refine_invoice_data: the answer is "raise" when
\* generate_content raised, "not json" when json.loads raised, and otherwise
\* refined_line_items is what json.loads made of the text; every exception
\* returns the record as it was
RefineLineItemsRecord(invoice_data, answer, refined_line_items) ==
    IF answer \in {"raise", "not json"} THEN invoice_data
    ELSE [ invoice_data EXCEPT !.line_items = refined_line_items ]

RefineLineItems ==
    /\ field = NoField
    /\ \E line_items \in StructuredLineItems :
         LET invoice_data == InvoiceData(line_items)
         IN \/ \E answer \in {"raise", "not json"} :
                 field' = [ op |-> "refine_line_items", invoice_data |-> invoice_data,
                            answer |-> answer,
                            result |-> RefineLineItemsRecord(invoice_data, answer, <<>>) ]
            \/ \E refined_line_items \in SeqsUpTo(AnswerItems) :
                 field' = [ op |-> "refine_line_items", invoice_data |-> invoice_data,
                            answer |-> "list", refined |-> refined_line_items,
                            result |-> RefineLineItemsRecord(invoice_data, "list",
                                                             refined_line_items) ]
            \/ field' = [ op |-> "refine_line_items", invoice_data |-> invoice_data,
                          answer |-> "not list", object |-> JsonObject,
                          result |-> RefineLineItemsRecord(invoice_data, "not list",
                                                           JsonObject) ]
    /\ UNCHANGED pvars

----------------------------------------------------------------------------
(* The field conversions as a system of their own *)

FieldInit ==
    /\ registry = <<>>
    /\ invoices = <<>>
    /\ now = 0
    /\ cfg = [use_production_bucket |-> FALSE, use_gemini |-> FALSE]
    /\ pc = [p \in Procs |-> "idle"]
    /\ call = [p \in Procs |-> NoCall]
    /\ ret = [p \in Procs |-> NoDict]
    /\ trace = [p \in Procs |-> <<>>]
    /\ ncalls = 0
    /\ hist = [f \in FileIds |-> [calls |-> 0, inserts |-> 0, clean |-> TRUE]]
    /\ field = NoField

\* the call returns to its caller, the next call can be made
FieldReturn ==
    /\ field # NoField
    /\ field' = NoField
    /\ UNCHANGED pvars

FieldNext ==
    \/ ConvertDates
    \/ ConvertAmounts
    \/ ExtractEntities
    \/ RefineWithGemini
    \/ ExtractLineItems
    \/ ParseDocumentAiOutput
    \/ BaseExtractLineItems
    \/ SimpleExtractLineItems
    \/ DocumentAiExtractLineItems
    \/ ApplyFilter
    \/ RefineLineItems
    \/ FieldReturn

FieldSpec == FieldInit /\ [][FieldNext]_vars

----------------------------------------------------------------------------
(* The claims *)

Ops == {"lookup", "update", "insert", "upload", "extract", "refine", "store"}

InTrace(p, op) == \E i \in 1..Len(trace[p]) : trace[p][i] = op

\* get_or_create_file_id was called in the invocation of p and has returned
Returned(p) == call[p].gid # <<>> /\ pc[p] \notin ({"idle"} \cup RegistryPcs)

\* position of a collaborator operation in the order of process_invoice
Rank(op) ==
    CASE op = "lookup" -> 1
      [] op \in {"update", "insert"} -> 2
      [] op = "upload" -> 3
      [] op = "extract" -> 4
      [] op = "refine" -> 5
      [] op = "store" -> 6

UploadFailed(p) == InTrace(p, "upload") /\ call[p].gcs_uri = <<>>
ExtractFailed(p) == InTrace(p, "extract") /\ call[p].pre = NoDict

\* C1: after N >= 1 sequential calls of get_or_create_file_id for a path, with
\* every warehouse call succeeding, the inventory holds exactly one row for the
\* path's identifier and its processing_count is N.
C1_RegistryIdempotence ==
    \A f \in FileIds :
        ( /\ hist[f].clean
          /\ hist[f].calls >= 1
          /\ \A p \in Procs : ~(pc[p] \in RegistryPcs /\ call[p].gid = f) )
        => LET rows == LookupRows(registry, f)
           IN Len(rows) = 1 /\ rows[1].processing_count = hist[f].calls

\* C2: the insert of get_or_create_file_id is not guarded by the lookup: every
\* accepted insert adds a row, also when a row with the identifier is already
\* there, so the inventory holds as many rows for an identifier as inserts
\* were accepted for it; two rows for one identifier come from overlapping
\* calls only.
C2_InsertHasNoGuard ==
    \A f \in FileIds :
        /\ Len(LookupRows(registry, f)) = hist[f].inserts
        /\ Len(LookupRows(registry, f)) >= 2 => ~hist[f].clean

\* C2, the case: two overlapping calls for one new path both inserted
C2_DoubleInsert ==
    \E f \in FileIds : Len(LookupRows(registry, f)) = 2 /\ ~hist[f].clean

\* C3: get_or_create_file_id never raises: whatever failed in it, it has
\* returned the identifier _generate_file_id computes for the path, and no
\* invocation ends with the registry's error.
C3_RegistryNeverRaises ==
    \A p \in Procs :
        Returned(p) =>
            /\ call[p].file_id = GenerateFileId(call[p].file_path)
            /\ ("error" \in DOMAIN ret[p] => ret[p].error # InventoryError)

\* C3, the case: the only registry call so far failed and returned the identifier
C3_FailedButReturned ==
    \E p \in Pipelines :
        /\ pc[p] = "upload"
        /\ ncalls = 1
        /\ ~hist[call[p].gid].clean
        /\ call[p].file_id = GenerateFileId(call[p].file_path)

\* C4: the identifier is a function of the normalized absolute path alone: two
\* calls return the same identifier exactly when their paths normalize to the
\* same absolute path, whatever the flags and labels, and both generators agree.
C4_IdentifierDeterminism ==
    /\ \A p, q \in Procs :
         (call[p].file_id # <<>> /\ call[q].file_id # <<>>) =>
            ( (call[p].file_id = call[q].file_id)
                <=> (AbsPath(call[p].file_path) = AbsPath(call[q].file_path)) )
    /\ \A p \in Procs :
         call[p].file_id # <<>> => call[p].file_id = MainGenerateFileId(call[p].file_path)

\* C4, the case: two spellings of one location, with different production
\* flags, got one identifier
C4_TwoSpellingsOneId ==
    \E p, q \in Procs :
        /\ call[p].file_id # <<>>
        /\ call[p].file_id = call[q].file_id
        /\ call[p].file_path # call[q].file_path
        /\ call[p].is_adhoc # call[q].is_adhoc

\* C5: the collaborator steps of one invocation happen in the order resolve,
\* upload, extraction, refinement, persist, each after the previous one
\* succeeded; the insert of the record is attempted only after the upload and
\* the extraction succeeded.
C5_StepOrder ==
    \A p \in Procs :
        /\ \A i, j \in 1..Len(trace[p]) : i < j => Rank(trace[p][i]) < Rank(trace[p][j])
        /\ InTrace(p, "upload") => call[p].file_id # <<>>
        /\ InTrace(p, "extract") => InTrace(p, "upload") /\ call[p].gcs_uri # <<>>
        /\ InTrace(p, "refine") => InTrace(p, "extract") /\ call[p].pre # NoDict
        /\ InTrace(p, "store") =>
              /\ InTrace(p, "upload") /\ call[p].gcs_uri # <<>>
              /\ InTrace(p, "extract") /\ call[p].pre # NoDict
              /\ cfg.use_gemini => InTrace(p, "refine")

\* C5, the case: an invocation went through every step
C5_AllSteps ==
    \E p \in Pipelines :
        trace[p] = <<"lookup", "insert", "upload", "extract", "refine", "store">>

\* C6: when the upload or the extraction fails, process_invoice returns
\* success=False with the error message, which is not empty, and the record is
\* not stored.
C6_UploadOrExtractFailure ==
    \A p \in Pipelines :
        (UploadFailed(p) \/ ExtractFailed(p)) =>
            /\ pc[p] = "done"
            /\ ret[p].success = FALSE
            /\ ret[p].error # <<>>
            /\ ret[p].error = (IF UploadFailed(p) THEN UploadError ELSE ExtractError)
            /\ ~InTrace(p, "store")
            /\ ~call[p].written

\* C6, the case: the extraction failed after a successful upload
C6_ExtractionFailed ==
    \E p \in Pipelines : ExtractFailed(p) /\ ~UploadFailed(p) /\ pc[p] = "done"

\* C7: a result with success=True implies the invoice row was written.
C7_PersistFailureTerminal ==
    \A p \in Pipelines :
        (pc[p] = "done" /\ ret[p].success) => call[p].written

\* C8: when the refinement call raises, answers with a body that is not JSON,
\* or with JSON missing expected keys, the record stored and returned is the
\* pre-refinement record, with success=True.
C8_RefinementFallback ==
    \A p \in Pipelines :
        call[p].refined \in {"raise", "not json", "missing keys"} =>
            /\ call[p].result = call[p].pre
            /\ (pc[p] = "done" /\ call[p].written) =>
                   ret[p].success /\ ret[p].data = call[p].pre

\* C9: the record stored carries the registry's file identifier as invoice_id.
C9_InvoiceIdIsFileId ==
    \A p \in Pipelines :
        call[p].written =>
            /\ "invoice_id" \in DOMAIN call[p].result
            /\ call[p].result["invoice_id"] = call[p].file_id

\* C10: within one invocation every collaborator operation is invoked at most
\* once, whatever its outcome.
C10_NoRetry ==
    \A p \in Procs : \A op \in Ops : Count(trace[p], op) <= 1

\* C10, the case: the upload failed and the call ended after that one attempt
C10_FailedOnce ==
    \E p \in Pipelines :
        /\ pc[p] = "done"
        /\ UploadFailed(p)
        /\ Count(trace[p], "upload") = 1

HasToken(text, tok) == \E i \in 1..Len(text) : text[i] = tok

\* the fields the spec says are attached to the record before the persist step
AttachedKeys ==
    { "invoice_id", "storage_path", "is_production", "original_filename",
      "project_name", "processing_timestamp" }

\* C11: every record that reaches the persist step carries the identifier, the
\* storage locator, the production flag, the source filename, the project
\* label and a processing timestamp.
C11_MetadataAttached ==
    \A p \in Pipelines :
        (pc[p] = "store" \/ InTrace(p, "store")) =>
            LET c == call[p]
                r == c.result
            IN /\ AttachedKeys \subseteq DOMAIN r
               /\ r["invoice_id"] = c.file_id
               /\ r["storage_path"] = c.storage_path
               /\ r["is_production"] = ~c.is_adhoc
               /\ r["original_filename"] = Basename(c.file_path)
               /\ r["project_name"] = c.project_name

\* C12: the storage locator of an ad hoc file is invoices/<identifier>_<name>,
\* so it contains the identifier and differs from the locator of any other
\* path with the same file name; the locator of a production file is the
\* file's path and does not contain the identifier.
C12_StorageLocatorRule ==
    \A p \in Pipelines :
        call[p].storage_path # <<>> =>
            LET c == call[p]
                sp == c.storage_path
            IN IF c.is_adhoc
               THEN /\ sp = <<"invoices", Sep>> \o c.file_id \o <<"_">> \o Basename(c.file_path)
                    /\ \A i \in 1..Len(c.file_id) : HasToken(sp, c.file_id[i])
                    /\ \A q \in Paths :
                         LET r == ResolvePath(q)
                         IN ( /\ Basename(r) = Basename(c.file_path)
                              /\ AbsPath(r) # AbsPath(c.file_path) )
                            => StoragePath(GenerateFileId(r), r, TRUE) # sp
               ELSE /\ sp = c.file_path
                    /\ \A i \in 1..Len(c.file_id) : ~HasToken(sp, c.file_id[i])

\* C12, the case: an ad hoc file was uploaded to its locator
C12_AdhocUploaded ==
    \E p \in Pipelines :
        /\ call[p].is_adhoc
        /\ call[p].storage_path # <<>>
        /\ call[p].gcs_uri = UploadUri(call[p].storage_path)

C13_CloudFunctionScratch ==
    \A p \in Pipelines :
        (call[p].event # NoDict /\ pc[p] = "done") =>
            /\ InTrace(p, "download")
            /\ InTrace(p, "delete")
            /\ "success" \in DOMAIN ret[p]
            /\ DOMAIN ret[p] \cap {"file_path", "file_name", "original_filename"} # {}
            /\ IF ret[p].success THEN "data" \in DOMAIN ret[p]
                                 ELSE "error" \in DOMAIN ret[p]

\* a text of the form YYYY-MM-DD
IsIsoDate(t) ==
    /\ Len(t) = 10
    /\ t[5] = "-" /\ t[8] = "-"
    /\ \A i \in {1, 2, 3, 4, 6, 7, 9, 10} : IsDigit(t[i])

\* what each implementation of the date conversion returned in the last call
DateOutputs == {field.document_ai, field.base, field.llm}

\* C18: the date conversion is total: for every text it returns a text of the
\* form YYYY-MM-DD; for the empty text and for a text no pattern parses it
\* returns exactly 1900-01-01.
C18_ParseDateTotal ==
    field.op = "date" =>
        /\ \A out \in DateOutputs : IsIsoDate(out)
        /\ field.date_str = <<>> => DateOutputs = {SentinelDate}
        /\ ( /\ Strptime(field.date_str, FmtMDy_Slash) = NoDate
             /\ Strptime(field.date_str, FmtMDY_Slash) = NoDate )
           => field.document_ai = SentinelDate
        /\ Strptime(field.date_str, FmtMDY_Slash) = NoDate => field.base = SentinelDate
        /\ FirstFormat(field.date_str, ConvertDateFormats) = 0 => field.llm = SentinelDate

\* the order of patterns the spec gives for the date conversion
ClaimedFormats ==
    <<FmtMDY_Slash, FmtMDy_Slash, FmtMDY_Dash, FmtYMD_Dash, FmtDMY_Slash, FmtDMY_Dash>>

ClaimedParseDate(date_str, pad_year) ==
    LET i == FirstFormat(date_str, ClaimedFormats)
    IN IF i = 0 THEN SentinelDate
       ELSE Strftime(Strptime(date_str, ClaimedFormats[i]), pad_year)

\* C19: the date conversion returns the first parse in the order MM/DD/YYYY,
\* MM/DD/YY, MM-DD-YYYY, YYYY-MM-DD, DD/MM/YYYY, DD-MM-YYYY: two-digit years
\* are accepted and the day-first reading is used when the month-first
\* patterns fail.
C19_ParseDateOrder ==
    field.op = "date" =>
        \A out \in DateOutputs :
            out \in { ClaimedParseDate(field.date_str, pad_year) : pad_year \in BOOLEAN }

\* the cleanup the spec gives for amounts: only the digits and the decimal
\* point are kept; one_point keeps the first decimal point only
ClaimedCleanup(amount_str, one_point) ==
    LET kept == SelectSeq(amount_str, LAMBDA c : IsDigit(c) \/ c = ".")
        parts == SplitOn(kept, ".")
    IN IF one_point /\ Len(parts) > 2
       THEN parts[1] \o <<".">> \o Remove(SubSeq(kept, Len(parts[1]) + 2, Len(kept)), ".")
       ELSE kept

ClaimedParseAmount(amount_str, one_point) ==
    LET value == ParseFloat(ClaimedCleanup(amount_str, one_point))
    IN IF value = ValueError THEN Zero ELSE value

\* a == b for floats: the two zeros are equal, nan equals nothing
SameNumber(a, b) ==
    /\ a.kind = b.kind
    /\ a.kind # "nan"
    /\ a.kind = "finite" => a.mant = b.mant /\ a.scale = b.scale
    /\ ~(a.kind = "finite" /\ a.mant = 0) => a.neg = b.neg

\* C20: the amount conversion is total and returns a number; it keeps the
\* digits and a single decimal point of the text, dropping currency symbols
\* and thousands separators, and returns 0.0 for the empty text and for a
\* text that does not parse after the cleanup.
C20_ParseAmountTotal ==
    field.op = "amount" =>
        \A out \in {field.base, field.llm} :
            /\ out.kind \in {"finite", "inf"}
            /\ \E one_point \in BOOLEAN :
                  SameNumber(out, ClaimedParseAmount(field.amount_str, one_point))

\* the operations that build a structured record
RecordBuilders == {"extract_entities", "refine_with_gemini"}

\* C15: in every record the pipeline produces, structured only, refined, or
\* after a failed refinement, invoice_date and due_date are of the form
\* YYYY-MM-DD (the sentinel 1900-01-01 included), never a raw extracted text.
C15_DatesCanonical ==
    (field.op \in RecordBuilders /\ ~field.raised) =>
        /\ IsIsoDate(field.record.invoice_date)
        /\ IsIsoDate(field.record.due_date)

FiniteNonNegative(v) == v.kind = "finite" /\ (v.neg => v.mant = 0)

\* C16: in every record the pipeline produces, and for every amount text
\* (a leading minus sign, inf and nan included), total_amount is a finite,
\* non-negative number, never a raw currency text.
C16_AmountInvariant ==
    /\ field.op = "amount" =>
         \A out \in {field.base, field.simple, field.llm} : FiniteNonNegative(out)
    /\ (field.op \in RecordBuilders /\ ~field.raised) =>
         FiniteNonNegative(field.record.total_amount)

\* C17: however malformed the extracted date and amount texts are, building
\* the record (with or without refinement) does not raise, and a field whose
\* text does not parse takes its default, the sentinel date or 0.0.
C17_NoErrorPropagates ==
    field.op \in RecordBuilders \cup {"extract_line_items"} =>
        /\ ~field.raised
        /\ ( /\ field.op = "refine_with_gemini"
             /\ field.answer # "json"
             /\ "invoice_date" \in DOMAIN field.entities
             /\ FirstFormat(field.entities.invoice_date, ClaimedFormats) = 0 )
           => field.record.invoice_date = SentinelDate

\* C26: process_invoice never raises to its caller: whatever fails, the call
\* ends with a dictionary that has a boolean success field, and the
\* dictionary has an error message exactly when success is False.
C26_AlwaysReturnsResult ==
    \A p \in Pipelines :
        (pc[p] = "done" /\ call[p].gid # <<>>) =>
            /\ ret[p] # NoDict
            /\ "success" \in DOMAIN ret[p]
            /\ ret[p].success \in BOOLEAN
            /\ ("error" \in DOMAIN ret[p]) <=> ~ret[p].success
            /\ ~ret[p].success => ret[p].error # <<>>

\* C26, the case: the persist step raised and the call returned the failure
C26_StoreFailureReturned ==
    \E p \in Pipelines :
        /\ pc[p] = "done"
        /\ InTrace(p, "store")
        /\ ~ret[p].success
        /\ ret[p].error = StoreError

\* the processing_count the registry holds for an identifier, 0 without a row
CountOf(table, f) ==
    LET rows == LookupRows(table, f)
    IN IF rows = <<>> THEN 0 ELSE rows[1].processing_count

\* C27: the registry counts invocations, not successes: the registry step of
\* process_invoice, when its warehouse calls succeed, creates the entry or
\* increments its processing_count before the upload is reached, and no later
\* step of the invocation (upload, extraction, persist, the return) changes
\* the registry back.
C27_CountsInvocations ==
    [][ \A p \in Pipelines :
          /\ ( /\ pc[p] \in {"insert", "update"}
               /\ pc'[p] = "upload"
               /\ hist'[call[p].gid].clean )
             => CountOf(registry', call[p].gid) = CountOf(registry, call[p].gid) + 1
          /\ pc[p] \in {"upload", "extract", "refine", "store", "done"}
             => CountOf(registry', call[p].gid) >= CountOf(registry, call[p].gid) ]_vars

\* C28: the storage locator the registry step of an invocation records in
\* the registry entry is the URI the same invocation uploads the file to,
\* for production and ad hoc files and for every bucket flag of the
\* constructor.
C28_RegistryUriIsUploadUri ==
    [][ \A p \in Pipelines :
          ( /\ pc[p] \in {"insert", "update"}
            /\ pc'[p] = "upload"
            /\ registry' # registry
            /\ hist'[call[p].gid].clean )
          => LET c == call[p]
                 rows == LookupRows(registry', c.gid)
             IN \A i \in 1..Len(rows) :
                  rows[i].gcs_uri = UploadUri(StoragePath(c.gid, c.file_path, c.is_adhoc))
      ]_vars

\* C21: the due date of the record is the invoice date plus exactly N days,
\* in the form YYYY-MM-DD, when the payment terms hold the net-days phrase
\* with the day count N and the invoice date is a valid canonical date other
\* than the sentinel; it is the sentinel 1900-01-01 otherwise; deriving it
\* never raises.
C21_DeriveDueDate ==
    field.op = "parse_document_ai_output" =>
        /\ ~field.raised
        /\ LET invoice_date == field.record.invoice_date
               due_date == field.record.due_date
               days == NtoSearch(field.entities.payment_terms)
               invoice_dt == Strptime(invoice_date, FmtYMD_Dash)
           IN IF /\ days # <<>>
                 /\ IsIsoDate(invoice_date)
                 /\ invoice_dt # NoDate
                 /\ invoice_date # SentinelDate
              THEN /\ IsIsoDate(due_date)
                   /\ Strptime(due_date, FmtYMD_Dash)
                        = FromOrdinal(ToOrdinal(invoice_dt) + Num(days))
              ELSE due_date = SentinelDate

\* the three numbers of every item of a list are finite and not negative
NumbersNonNegative(items) ==
    \A i \in 1..Len(items) :
        /\ FiniteNonNegative(items[i].quantity)
        /\ FiniteNonNegative(items[i].unit_price)
        /\ FiniteNonNegative(items[i].amount)

\* C24: every line item the extraction produces has quantity, unit price and
\* amount each a number >= 0, never None and never negative, also for table
\* rows with blank numeric cells and for rows with negative numbers.
C24_LineItemNumbers ==
    /\ (field.op = "document_ai_line_items" /\ ~field.raised)
         => NumbersNonNegative(field.line_items)
    /\ field.op = "simple_line_items" => NumbersNonNegative(field.line_items)

\* C25: the all-zero/empty line-item filter is idempotent: applied to an
\* already filtered list it returns that list, in the same order.
C25_FilterIdempotent ==
    field.op = "filter" =>
        /\ field.twice = field.once
        /\ \A i \in 1..Len(field.once) : KeepLineItem(field.once[i])

\* C25, the case: the filter dropped an item and kept another
C25_FilterDroppedAndKept ==
    /\ field.op = "filter"
    /\ \E i \in 1..Len(field.items) : ~KeepLineItem(field.items[i])
    /\ field.once # <<>>

AllKept(items) == \A i \in 1..Len(items) : KeepLineItem(items[i])

\* C22: every line item of a final list, from the entity extraction, the
\* table cells, the flat text or the refinement by the model, has a
\* description or a quantity, unit price or amount above zero
C22_FinalItemsPassFilter ==
    /\ field.op = "base_line_items" => AllKept(field.line_items)
    /\ (field.op = "document_ai_line_items" /\ ~field.raised) => AllKept(field.line_items)
    /\ (field.op = "refine_line_items" /\ field.answer # "not list")
           => AllKept(field.result.line_items)

\* C23: one whole list is picked: the model's list when it was supplied,
\* parsed and is a list that is not empty, else the structured list, which is
\* the list of the tables when that is not empty and else the list of the
\* flat text; an empty answer or one that is not a list replaces nothing
C23_PickOneFullList ==
    /\ (field.op = "document_ai_line_items" /\ ~field.raised)
           => field.line_items = IF TableItems(field.rows) # <<>>
                                 THEN TableItems(field.rows)
                                 ELSE TextItems(field.lines)
    /\ field.op = "refine_line_items" =>
           /\ field.answer # "not list"
           /\ field.result.line_items =
                  IF field.answer = "list" /\ field.refined # <<>>
                  THEN field.refined
                  ELSE field.invoice_data.line_items

\* C29: the refinement changes nothing but line_items, and after a failure
\* of the model or of the JSON parsing the record is the one handed in
C29_RefineFrame ==
    field.op = "refine_line_items" =>
        /\ DOMAIN field.result = DOMAIN field.invoice_data
        /\ \A k \in DOMAIN field.invoice_data \ {"line_items"} :
               field.result[k] = field.invoice_data[k]
        /\ field.answer \in {"raise", "not json"} => field.result = field.invoice_data

\* C29, the case: the model's list replaced a different structured list
C29_LineItemsReplaced ==
    /\ field.op = "refine_line_items"
    /\ field.answer = "list"
    /\ field.invoice_data.line_items # <<>>
    /\ field.refined # <<>>
    /\ field.result.line_items # field.invoice_data.line_items

====
